---- MODULE Spec2Model ----
(***************************************************************************)
(* Model of src/app.py: the Streamlit script that loads a bank-transaction *)
(* CSV (load_and_preprocess_data), asks the generation service for a       *)
(* narrative (get_gemini_insights) and computes the monthly summary, the   *)
(* category tables and the two leaderboards (main).                        *)
(*                                                                         *)
(* Text cells are sequences of character codes (ASCII), so that            *)
(* str.contains, the sort of group keys and the period formatting are      *)
(* computed on characters.  A missing cell (NaN / NaT) is the empty        *)
(* sequence: pd.read_csv reads an empty field as NaN.  Amounts are         *)
(* integers (exact arithmetic; float rounding is not modelled).            *)
(***************************************************************************)
EXTENDS Integers, Sequences, FiniteSets, Bags, TLC

VARIABLES
    secrets,        \* st.secrets: "ok", "missing" (KeyError) or "error"
    uploaded_file,  \* st.file_uploader's value: <<>> (None) or <<file>>
    cache,          \* st.cache_data of load_and_preprocess_data: file -> result
    pc,             \* position of the script run (main)
    df,             \* main's df: None or a data frame
    insights,       \* main's insights: "", "report" or "diagnostic"
    data_sample,    \* get_gemini_insights' data_sample: bag of row positions
    views,          \* monthly_summary, spending_by_cat, income_by_cat, outflows, inflows
    computed,       \* names of the views computed in this script run
    parses,         \* bag of files: executions of load_and_preprocess_data's body
    requests,       \* bag of files: calls of model.generate_content
    loaded_runs,    \* bag of files: script runs in which the load returned a frame
    renders,        \* number of script runs started after the first
    same_file_runs  \* script runs started since uploaded_file last changed

vars == <<secrets, uploaded_file, cache, pc, df, insights, data_sample, views,
          computed, parses, requests, loaded_runs, renders, same_file_runs>>

(***************************************************************************)
(* Bounds of the model.                                                    *)
(***************************************************************************)
MaxRows == 3        \* rows of a small ledger
MaxOverTop == 1     \* a wide ledger has up to top_n + MaxOverTop counterparties
MaxRenders == 3     \* script runs of one session after the first

(***************************************************************************)
(* Program constants.                                                      *)
(***************************************************************************)
sample_size == 500
top_n == 10

NaN == <<>>

Required == {"Transaction_Date", "Description", "Debit_Amount", "Credit_Amount",
             "Category", "Beneficiary_Name", "Transaction_Type"}

\* 'Freelance|Dividend|Refund|Interest'
Pattern == { <<70,114,101,101,108,97,110,99,101>>,
             <<68,105,118,105,100,101,110,100>>,
             <<82,101,102,117,110,100>>,
             <<73,110,116,101,114,101,115,116>> }

Credit == <<67,114,101,100,105,116>>     \* 'Credit'
Debit == <<68,101,98,105,116>>           \* "Debit"

None == [isNone |-> TRUE, columns |-> {}, rows |-> <<>>]

Frame(cols, rows) == [isNone |-> FALSE, columns |-> cols, rows |-> rows]

(***************************************************************************)
(* pd.to_datetime: a date cell is NaN or <<year, month, day>>; a cell that *)
(* is no calendar date raises.                                             *)
(***************************************************************************)
IsLeap(y) == (y % 4 = 0 /\ y % 100 # 0) \/ y % 400 = 0

DaysInMonth(y, m) ==
    IF m = 2 THEN (IF IsLeap(y) THEN 29 ELSE 28)
    ELSE IF m \in {4, 6, 9, 11} THEN 30 ELSE 31

DateParses(cell) ==
    \/ cell = NaN
    \/ /\ cell[2] \in 1..12
       /\ cell[3] \in 1..DaysInMonth(cell[1], cell[2])

(***************************************************************************)
(* .dt.to_period('M').astype(str): "YYYY-MM", and 'NaT' for NaT.           *)
(***************************************************************************)
Digit(n) == 48 + n

\* without astype(str): NaT stays missing
PeriodStrMissing(date) ==
    IF date = NaN THEN NaN
    ELSE << Digit(date[1] \div 1000), Digit((date[1] \div 100) % 10),
            Digit((date[1] \div 10) % 10), Digit(date[1] % 10), 45,
            Digit(date[2] \div 10), Digit(date[2] % 10) >>

PeriodStr(date) ==
    IF date = NaN THEN <<78, 97, 84>>
    ELSE << Digit(date[1] \div 1000), Digit((date[1] \div 100) % 10),
            Digit((date[1] \div 10) % 10), Digit(date[1] % 10), 45,
            Digit(date[2] \div 10), Digit(date[2] % 10) >>

(***************************************************************************)
(* pd.to_numeric(errors='coerce').fillna(0): an amount cell is             *)
(* <<"num", n>>, <<"text", 0>> (not a number) or <<"nan", 0>> (empty).     *)
(* to_numeric gives <<"num", n>>, <<"nan", 0>> or, when it raises,         *)
(* <<"raise", 0>>; with errors='coerce' it never raises.                   *)
(***************************************************************************)
\* errors='raise', the default of pd.to_numeric
to_numeric_raise(cell) ==
    IF cell[1] = "text" THEN <<"raise", 0>>
    ELSE IF cell[1] = "num" THEN cell ELSE <<"nan", 0>>

to_numeric(cell) == IF cell[1] = "num" THEN cell ELSE <<"nan", 0>>

fillna(cell, value) == IF cell[1] = "nan" THEN value ELSE cell[2]

Amount(cell) == fillna(to_numeric(cell), 0)

(***************************************************************************)
(* .str.contains(pattern, case=False, na=False)                            *)
(***************************************************************************)
Lower(s) == [i \in 1..Len(s) |-> IF s[i] \in 65..90 THEN s[i] + 32 ELSE s[i]]

Search(s, p) ==
    \E i \in 1..(Len(s) - Len(p) + 1) : \A j \in 1..Len(p) : s[i + j - 1] = p[j]

\* case=True, the default of str.contains
str_contains_case(cell) ==
    IF cell = NaN THEN FALSE
    ELSE \E p \in Pattern : Search(cell, p)

str_contains(cell) ==
    IF cell = NaN THEN FALSE
    ELSE \E p \in Pattern : Search(Lower(cell), Lower(p))

(***************************************************************************)
(* load_and_preprocess_data, lines 35-40: what makes the body raise, and   *)
(* the frame after the date, amount and Month assignments.                 *)
(***************************************************************************)
StrAccessorRaises(file) ==
    \* a non-empty column without any string is float64: AttributeError
    /\ Len(file.rows) > 0
    /\ \A i \in 1..Len(file.rows) : file.rows[i].Description = NaN

LoadRaises(file) ==
    \/ "Transaction_Date" \notin file.columns
    \/ \E i \in 1..Len(file.rows) : ~DateParses(file.rows[i].Transaction_Date)
    \/ "Debit_Amount" \notin file.columns
    \/ \E i \in 1..Len(file.rows) : to_numeric(file.rows[i].Debit_Amount)[1] = "raise"
    \/ "Credit_Amount" \notin file.columns
    \/ \E i \in 1..Len(file.rows) : to_numeric(file.rows[i].Credit_Amount)[1] = "raise"
    \/ "Description" \notin file.columns
    \/ StrAccessorRaises(file)

Normalize(file) ==
    Frame(file.columns \cup {"Month"},
          [i \in 1..Len(file.rows) |->
              LET r == file.rows[i] IN
              [c \in DOMAIN r \cup {"Month"} |->
                  CASE c = "Debit_Amount" -> Amount(r.Debit_Amount)
                    [] c = "Credit_Amount" -> Amount(r.Credit_Amount)
                    [] c = "Month" -> PeriodStr(r.Transaction_Date)
                    [] OTHER -> r[c]]])

(***************************************************************************)
(* Line 42: df.loc[mask, 'Transaction_Type'] = 'Credit'.  Setting a column *)
(* the frame lacks adds it, NaN where the mask is false.                   *)
(***************************************************************************)
Reclassify(frame) ==
    Frame(frame.columns \cup {"Transaction_Type"},
          [i \in 1..Len(frame.rows) |->
              LET r == frame.rows[i] IN
              [c \in DOMAIN r \cup {"Transaction_Type"} |->
                  IF c = "Transaction_Type"
                  THEN IF str_contains(r.Description) THEN Credit
                       ELSE IF c \in DOMAIN r THEN r[c] ELSE NaN
                  ELSE r[c]]])

load_and_preprocess_data(file) ==
    IF LoadRaises(file) THEN None ELSE Reclassify(Normalize(file))

(***************************************************************************)
(* Group keys are compared as Python compares strings: by character code.  *)
(***************************************************************************)
LexLess(a, b) ==
    \E i \in 1..Len(b) :
        /\ \A j \in 1..(i - 1) : j <= Len(a) /\ a[j] = b[j]
        /\ (i > Len(a) \/ a[i] < b[i])

RECURSIVE SortKeys(_)
SortKeys(S) ==
    IF S = {} THEN <<>>
    ELSE LET m == CHOOSE x \in S : \A y \in S \ {x} : LexLess(x, y)
         IN <<m>> \o SortKeys(S \ {m})

SumOf(rows, keycol, key, valcol) ==
    LET f[i \in 0..Len(rows)] ==
            IF i = 0 THEN 0
            ELSE f[i - 1] + (IF rows[i][keycol] = key THEN rows[i][valcol] ELSE 0)
    IN f[Len(rows)]

CountOf(rows, keycol, key) ==
    Cardinality({i \in 1..Len(rows) : rows[i][keycol] = key})

(***************************************************************************)
(* DataFrame.groupby(keycol): sort=True orders the groups by key and       *)
(* dropna=True leaves out the rows whose key is NaN.                       *)
(***************************************************************************)
GroupKeys(rows, keycol) == {rows[i][keycol] : i \in 1..Len(rows)} \ {NaN}

\* .groupby(keycol)[valcol].agg(['sum', 'count'])
groupby(rows, keycol, valcol) ==
    LET order == SortKeys(GroupKeys(rows, keycol)) IN
    [k \in 1..Len(order) |->
        [key |-> order[k],
         sum |-> SumOf(rows, keycol, order[k], valcol),
         count |-> CountOf(rows, keycol, order[k])]]

(***************************************************************************)
(* sort_values(by='sum', ascending=False): the default kind, quicksort, is *)
(* not stable, so rows with equal sums come out in any order.              *)
(***************************************************************************)
RECURSIVE Orders(_, _)
Orders(t, I) ==
    IF I = {} THEN {<<>>}
    ELSE UNION { { <<t[i]>> \o o : o \in Orders(t, I \ {i}) } :
                 i \in {i \in I : \A j \in I : t[j].sum <= t[i].sum} }

sort_values_ascending(t) ==
    { [k \in 1..Len(o) |-> o[Len(o) + 1 - k]] : o \in Orders(t, DOMAIN t) }

sort_values(t) == Orders(t, DOMAIN t)

head(t, n) == SubSeq(t, 1, IF Len(t) < n THEN Len(t) ELSE n)

positive(rows, valcol) == SelectSeq(rows, LAMBDA r : r[valcol] > 0)

(***************************************************************************)
(* Lines 131-134: monthly_summary.                                         *)
(***************************************************************************)
monthly_summary(frame) ==
    LET order == SortKeys(GroupKeys(frame.rows, "Month")) IN
    [k \in 1..Len(order) |->
        [Month |-> order[k],
         Total_Income |-> SumOf(frame.rows, "Month", order[k], "Credit_Amount"),
         Total_Spending |-> SumOf(frame.rows, "Month", order[k], "Debit_Amount")]]

(***************************************************************************)
(* Lines 163 and 183: the category tables (each a set of possible orders). *)
(***************************************************************************)
spending_by_cat(frame) ==
    sort_values(groupby(positive(frame.rows, "Debit_Amount"), "Category", "Debit_Amount"))

income_by_cat(frame) ==
    sort_values(groupby(positive(frame.rows, "Credit_Amount"), "Category", "Credit_Amount"))

(***************************************************************************)
(* Line 209: outflows.  Line 215: the Inflow_Source column, added to df.   *)
(* Line 216: inflows.                                                      *)
(***************************************************************************)
outflows(frame) ==
    { head(o, top_n) :
        o \in sort_values(groupby(positive(frame.rows, "Debit_Amount"),
                                  "Beneficiary_Name", "Debit_Amount")) }

\* the fallback written into Beneficiary_Name as well
WithInflowSourceFilled(frame) ==
    Frame(frame.columns \cup {"Inflow_Source"},
          [i \in 1..Len(frame.rows) |->
              LET r == frame.rows[i]
                  src == IF r.Beneficiary_Name # NaN THEN r.Beneficiary_Name
                         ELSE r.Description
              IN [c \in DOMAIN r \cup {"Inflow_Source"} |->
                     IF c \in {"Inflow_Source", "Beneficiary_Name"} THEN src ELSE r[c]]])

WithInflowSource(frame) ==
    Frame(frame.columns \cup {"Inflow_Source"},
          [i \in 1..Len(frame.rows) |->
              LET r == frame.rows[i] IN
              [c \in DOMAIN r \cup {"Inflow_Source"} |->
                  IF c = "Inflow_Source"
                  THEN IF r.Beneficiary_Name # NaN THEN r.Beneficiary_Name
                       ELSE r.Description
                  ELSE r[c]]])

inflow_groups(frame) ==
    groupby(positive(frame.rows, "Credit_Amount"), "Inflow_Source", "Credit_Amount")

inflows(frame) == { head(o, top_n) : o \in sort_values(inflow_groups(frame)) }

(***************************************************************************)
(* Lines 51-54: df.sample(500) draws 500 of the n rows without             *)
(* replacement, which is to leave n - 500 of them undrawn; a frame of at   *)
(* most 500 rows is taken whole.  The excerpt is kept as the bag of the    *)
(* row positions it holds (the order of the drawn rows is left out).       *)
(***************************************************************************)
RECURSIVE KSubsets(_, _)
KSubsets(S, k) ==
    IF k = 0 THEN {{}}
    ELSE UNION { { e \cup {x} : x \in {y \in S : \A z \in e : y > z} } :
                 e \in KSubsets(S, k - 1) }

Undrawn(n) ==
    IF n > sample_size THEN KSubsets(1..n, n - sample_size) ELSE {{}}

\* df.sample(500, replace=True): a row may be drawn twice
DataSampleReplace(n, undrawn) ==
    IF n > sample_size
    THEN [p \in 1..(sample_size - 1) |-> IF p = 1 THEN 2 ELSE 1]
    ELSE SetToBag((1..n) \ undrawn)

DataSample(n, undrawn) == SetToBag((1..n) \ undrawn)

(***************************************************************************)
(* Input files.  A file is its header (columns) and its rows.              *)
(***************************************************************************)
Row(date, desc, debit, credit, cat, ben, type) ==
    [Transaction_Date |-> date, Description |-> desc, Debit_Amount |-> debit,
     Credit_Amount |-> credit, Category |-> cat, Beneficiary_Name |-> ben,
     Transaction_Type |-> type]

Num(n) == <<"num", n>>
Text == <<"text", 0>>
Empty == <<"nan", 0>>

Rent == <<82,101,110,116>>
Salary == <<83,97,108,97,114,121>>
DividendReceived == <<68,105,118,105,100,101,110,100,32,114,101,99,101,105,118,101,100>>
refund == <<114,101,102,117,110,100>>
DISINTERESTED == <<68,73,83,73,78,84,69,82,69,83,84,69,68>>
Zed == <<90,101,100>>
Bob == <<66,111,98>>
Acme == <<65,99,109,101>>
Food == <<70,111,111,100>>
Other == <<79,116,104,101,114>>

RowPool ==
    << Row(<<2024,1,15>>, Rent, Num(100), Empty, Food, Zed, Debit),
       Row(<<2024,1,31>>, Salary, Empty, Num(2000), Salary, Acme, Credit),
       Row(<<2024,2,10>>, DividendReceived, Num(50), Empty, Other, NaN, Debit),
       Row(<<2024,2,29>>, refund, Text, Num(7), Other, NaN, Debit),
       Row(NaN, NaN, Empty, Num(5), NaN, NaN, NaN),
       Row(<<2024,1,15>>, DISINTERESTED, Num(100), Num(-3), Food, Bob, Debit),
       Row(<<2023,2,29>>, Rent, Num(100), Empty, Food, Zed, Debit),
       Row(<<2024,1,20>>, Salary, Num(2000), Num(2000), Salary, Bob, Credit),
       Row(<<2024,2,10>>, Rent, Num(-100), Text, Food, Zed, Debit) >>

File(cols, rows) == [columns |-> cols, rows |-> rows]

SeqsUpTo(n) == UNION { [1..k -> DOMAIN RowPool] : k \in 0..n }

SmallLedgers ==
    { File(Required, [i \in DOMAIN ix |-> RowPool[ix[i]]]) : ix \in SeqsUpTo(MaxRows) }

\* the file without column c
DropColumn(file, c) ==
    File(file.columns \ {c},
         [i \in 1..Len(file.rows) |->
             [d \in DOMAIN file.rows[i] \ {c} |-> file.rows[i][d]]])

(***************************************************************************)
(* Wide ledgers: w counterparties, one row each, paying and receiving the  *)
(* same amount; the amounts are distinct except for the pair tie, tie + 1  *)
(* (tie = 0: no tie); the rows come in key order or in reverse.            *)
(***************************************************************************)
Name(k) == <<65 + k>>

WideAmount(w, k, tie, up) ==
    LET j == IF tie > 0 /\ k = tie + 1 THEN tie ELSE k
    IN 10 * (IF up THEN j ELSE w + 1 - j)

WideLedger(w, tie, up, reversed) ==
    File(Required,
         [i \in 1..w |->
             LET k == IF reversed THEN w + 1 - i ELSE i IN
             Row(<<2024,3,1>>, Name(k), Num(WideAmount(w, k, tie, up)),
                 Num(WideAmount(w, k, tie, up)), Food, Name(k), Debit)])

WideLedgers ==
    { WideLedger(w, tie, up, reversed) :
        w \in (top_n + 1)..(top_n + MaxOverTop), tie \in 0..(top_n + MaxOverTop - 1),
        up \in BOOLEAN, reversed \in BOOLEAN }

\* the ledgers of at most one row, each without one of its columns
HeaderVariants ==
    { DropColumn(f, c) : f \in {g \in SmallLedgers : Len(g.rows) <= 1}, c \in Required }

Ledgers == SmallLedgers \cup HeaderVariants \cup WideLedgers

NoViews ==
    [monthly_summary |-> <<>>, spending_by_cat |-> <<>>, income_by_cat |-> <<>>,
     outflows |-> <<>>, inflows |-> <<>>]

ServiceOutcomes == {"ok", "generate_raises", "text_raises"}

(***************************************************************************)
(* main, one script run.  Lines 97-98: configure_api and st.stop().        *)
(***************************************************************************)
configure_api == secrets = "ok"

Configure ==
    /\ pc = "start"
    /\ pc' = IF configure_api THEN "uploader" ELSE "stopped"
    /\ UNCHANGED <<secrets, uploaded_file, cache, df, insights, data_sample, views,
                   computed, parses, requests, loaded_runs, renders, same_file_runs>>

(***************************************************************************)
(* Lines 109-119.  @st.cache_data (line 31) keeps the result, None         *)
(* included, per file and returns a copy of it.                            *)
(***************************************************************************)
\* without @st.cache_data
CacheNever(c, f) == FALSE

CacheHit(c, f) == f \in DOMAIN c

Load ==
    /\ pc = "uploader"
    /\ IF uploaded_file = <<>>
       THEN /\ pc' = "done"
            /\ UNCHANGED <<cache, df, parses, loaded_runs>>
       ELSE LET f == uploaded_file[1]
                hit == CacheHit(cache, f)
                result == IF hit THEN cache[f] ELSE load_and_preprocess_data(f)
            IN /\ cache' = IF hit THEN cache ELSE (f :> result) @@ cache
               /\ parses' = IF hit THEN parses ELSE parses (+) SetToBag({f})
               /\ df' = result
               /\ loaded_runs' = IF result.isNone THEN loaded_runs
                                 ELSE loaded_runs (+) SetToBag({f})
               /\ pc' = IF result.isNone THEN "done" ELSE "tab1"
    /\ UNCHANGED <<secrets, uploaded_file, insights, data_sample, views, computed,
                   requests, renders, same_file_runs>>

(***************************************************************************)
(* Lines 123-127 and get_gemini_insights (49-90): the excerpt, one call of *)
(* the generation service, and its failure turned into a message.          *)
(***************************************************************************)
get_gemini_insights(outcome) ==
    IF outcome = "ok" THEN "report" ELSE "diagnostic"

Tab1 ==
    /\ pc = "tab1"
    /\ \E undrawn \in Undrawn(Len(df.rows)), outcome \in ServiceOutcomes :
          /\ data_sample' = DataSample(Len(df.rows), undrawn)
          /\ insights' = get_gemini_insights(outcome)
    /\ requests' = requests (+) SetToBag({uploaded_file[1]})
    /\ pc' = "tab2"
    /\ UNCHANGED <<secrets, uploaded_file, cache, df, views, computed, parses,
                   loaded_runs, renders, same_file_runs>>

(***************************************************************************)
(* Lines 129-134.                                                          *)
(***************************************************************************)
Tab2 ==
    /\ pc = "tab2"
    /\ views' = [views EXCEPT !.monthly_summary = monthly_summary(df)]
    /\ computed' = computed \cup {"monthly_summary"}
    /\ pc' = "tab3"
    /\ UNCHANGED <<secrets, uploaded_file, cache, df, insights, data_sample, parses,
                   requests, loaded_runs, renders, same_file_runs>>

(***************************************************************************)
(* Lines 157-200: a frame without the Category column raises KeyError,     *)
(* which nothing catches: the script run ends there.                       *)
(***************************************************************************)
Tab3 ==
    /\ pc = "tab3"
    /\ IF "Category" \notin df.columns
       THEN /\ pc' = "crashed"
            /\ UNCHANGED <<views, computed>>
       ELSE /\ \E s \in spending_by_cat(df), t \in income_by_cat(df) :
                  views' = [views EXCEPT !.spending_by_cat = s, !.income_by_cat = t]
            /\ computed' = computed \cup {"spending_by_cat", "income_by_cat"}
            /\ pc' = "tab4"
    /\ UNCHANGED <<secrets, uploaded_file, cache, df, insights, data_sample, parses,
                   requests, loaded_runs, renders, same_file_runs>>

(***************************************************************************)
(* Lines 202-218: KeyError without the Beneficiary_Name column.            *)
(***************************************************************************)
Tab4 ==
    /\ pc = "tab4"
    /\ IF "Beneficiary_Name" \notin df.columns
       THEN /\ pc' = "crashed"
            /\ UNCHANGED <<df, views, computed>>
       ELSE /\ df' = WithInflowSource(df)
            /\ \E o \in outflows(df), i \in inflows(WithInflowSource(df)) :
                  views' = [views EXCEPT !.outflows = o, !.inflows = i]
            /\ computed' = computed \cup {"outflows", "inflows"}
            /\ pc' = "done"
    /\ UNCHANGED <<secrets, uploaded_file, cache, insights, data_sample, parses,
                   requests, loaded_runs, renders, same_file_runs>>

(***************************************************************************)
(* A new script run: the user reruns the page, or uploads or removes a     *)
(* file (the uploader is on the page only when configure_api succeeded).   *)
(***************************************************************************)
NewRun ==
    /\ renders < MaxRenders
    /\ renders' = renders + 1
    /\ pc' = "start"
    /\ df' = None
    /\ insights' = ""
    /\ data_sample' = EmptyBag
    /\ views' = NoViews
    /\ computed' = {}

Rerun ==
    /\ pc \in {"done", "crashed", "stopped"}
    /\ NewRun
    /\ same_file_runs' = same_file_runs + 1
    /\ UNCHANGED <<secrets, uploaded_file, cache, parses, requests, loaded_runs>>

Files ==
    { File(Required, <<RowPool[1], RowPool[6]>>),
      File(Required, <<RowPool[2], RowPool[4], RowPool[5]>>),
      File(Required, <<RowPool[7]>>),
      File(Required, <<>>),
      DropColumn(File(Required, <<RowPool[2]>>), "Category"),
      DropColumn(File(Required, <<RowPool[1]>>), "Beneficiary_Name"),
      DropColumn(File(Required, <<RowPool[4]>>), "Transaction_Type"),
      DropColumn(File(Required, <<RowPool[3]>>), "Transaction_Date"),
      WideLedger(top_n + 1, top_n, FALSE, TRUE) }

Upload ==
    /\ pc \in {"done", "crashed"}
    /\ \E f \in {<<>>} \cup {<<g>> : g \in Files} :
          /\ f # uploaded_file
          /\ uploaded_file' = f
    /\ NewRun
    /\ same_file_runs' = 1
    /\ UNCHANGED <<secrets, cache, parses, requests, loaded_runs>>

Init ==
    /\ secrets \in {"ok", "missing", "error"}
    /\ uploaded_file = <<>>
    /\ cache = <<>>
    /\ pc = "start"
    /\ df = None
    /\ insights = ""
    /\ data_sample = EmptyBag
    /\ views = NoViews
    /\ computed = {}
    /\ parses = EmptyBag
    /\ requests = EmptyBag
    /\ loaded_runs = EmptyBag
    /\ renders = 0
    /\ same_file_runs = 1

Next == Configure \/ Load \/ Tab1 \/ Tab2 \/ Tab3 \/ Tab4 \/ Rerun \/ Upload

Spec == Init /\ [][Next]_vars

(***************************************************************************)
(* One script run on each ledger.                                          *)
(***************************************************************************)
InitData ==
    /\ secrets = "ok"
    /\ uploaded_file \in {<<f>> : f \in Ledgers}
    /\ cache = <<>>
    /\ pc = "start"
    /\ df = None
    /\ insights = ""
    /\ data_sample = EmptyBag
    /\ views = NoViews
    /\ computed = {}
    /\ parses = EmptyBag
    /\ requests = EmptyBag
    /\ loaded_runs = EmptyBag
    /\ renders = 0
    /\ same_file_runs = 1

NextData == Configure \/ Load \/ Tab1 \/ Tab2 \/ Tab3 \/ Tab4

SpecData == InitData /\ [][NextData]_vars

(***************************************************************************)
(* get_gemini_insights on small frames and on frames of about sample_size  *)
(* rows.  Only the row positions matter to lines 51-54: the cells are      *)
(* left out.                                                               *)
(***************************************************************************)
IndexFile(n) == File({}, [i \in 1..n |-> <<>>])

SampleSizes == (0..MaxRows) \cup ((sample_size - 1)..(sample_size + 1))

InitSample ==
    /\ secrets = "ok"
    /\ \E n \in SampleSizes :
          /\ uploaded_file = <<IndexFile(n)>>
          /\ df = Frame({}, IndexFile(n).rows)
    /\ cache = <<>>
    /\ pc = "tab1"
    /\ insights = ""
    /\ data_sample = EmptyBag
    /\ views = NoViews
    /\ computed = {}
    /\ parses = EmptyBag
    /\ requests = EmptyBag
    /\ loaded_runs = EmptyBag
    /\ renders = 0
    /\ same_file_runs = 1

NextSample == Tab1

SpecSample == InitSample /\ [][NextSample]_vars

(***************************************************************************)
(* Properties.                                                             *)
(***************************************************************************)
Loaded == pc \in {"tab1", "tab2", "tab3", "tab4", "done", "crashed"} /\ ~df.isNone

Ended == pc \in {"done", "crashed", "stopped"}

AllViews == {"monthly_summary", "spending_by_cat", "income_by_cat", "outflows", "inflows"}

SumCol(rows, col) ==
    LET f[i \in 0..Len(rows)] == IF i = 0 THEN 0 ELSE f[i - 1] + rows[i][col]
    IN f[Len(rows)]

Descending(t) == \A a, b \in 1..Len(t) : a < b => t[a].sum >= t[b].sum

FirstRow(rows, keycol, key) ==
    CHOOSE i \in 1..Len(rows) :
        /\ rows[i][keycol] = key
        /\ \A j \in 1..(i - 1) : rows[j][keycol] # key

\* C1: the monthly summary's Total_Income adds up to the credit_amount of
\* all rows and its Total_Spending to the debit_amount of all rows, and every
\* row belongs to exactly one period of the summary.
C1_MonthlyTotals ==
    "monthly_summary" \in computed =>
        LET t == views.monthly_summary IN
        /\ SumCol(t, "Total_Income") = SumCol(df.rows, "Credit_Amount")
        /\ SumCol(t, "Total_Spending") = SumCol(df.rows, "Debit_Amount")
        /\ \A i \in 1..Len(df.rows) :
              Cardinality({k \in 1..Len(t) : t[k].Month = df.rows[i].Month}) = 1

C1_Witness ==
    /\ "monthly_summary" \in computed
    /\ Len(views.monthly_summary) = 2
    /\ \E i \in 1..Len(df.rows) :
          /\ df.rows[i].Transaction_Date = NaN
          /\ df.rows[i].Credit_Amount > 0
          /\ df.rows[i].Transaction_Type \notin {Credit, Debit}
    /\ \E k \in 1..2 : views.monthly_summary[k].Total_Spending > 0

\* C2: the excerpt of a frame of more than 500 rows holds exactly 500 rows
\* of the frame, none of them twice; the excerpt of a frame of at most 500
\* rows (500 included) holds every row once.
C2_SampleSize ==
    pc = "tab2" =>
        LET n == Len(df.rows) IN
        /\ \A p \in BagToSet(data_sample) : p \in 1..n /\ CopiesIn(p, data_sample) = 1
        /\ n > sample_size => BagCardinality(data_sample) = sample_size
        /\ n <= sample_size => BagToSet(data_sample) = 1..n

C2_Witness ==
    /\ pc = "tab2"
    /\ Len(df.rows) > sample_size
    /\ BagCardinality(data_sample) = sample_size
    /\ 1 \notin BagToSet(data_sample)

\* C3 as stated: each leaderboard has at most 10 entries in descending
\* order of total, and of two keys with equal totals the one met first in the
\* rows is ranked first and is the one kept at rank 10.
FirstMetFirst(board, groups, rows, keycol) ==
    /\ \A a, b \in 1..Len(board) :
          (a < b /\ board[a].sum = board[b].sum) =>
              FirstRow(rows, keycol, board[a].key) < FirstRow(rows, keycol, board[b].key)
    /\ \A a \in 1..Len(board), g \in 1..Len(groups) :
          (groups[g].sum = board[a].sum /\ \A b \in 1..Len(board) : board[b] # groups[g]) =>
              FirstRow(rows, keycol, board[a].key) < FirstRow(rows, keycol, groups[g].key)

OutflowGroups ==
    groupby(positive(df.rows, "Debit_Amount"), "Beneficiary_Name", "Debit_Amount")

C3_TiesFirstMet ==
    {"outflows", "inflows"} \subseteq computed =>
        /\ Len(views.outflows) <= top_n /\ Descending(views.outflows)
        /\ Len(views.inflows) <= top_n /\ Descending(views.inflows)
        /\ FirstMetFirst(views.outflows, OutflowGroups, df.rows, "Beneficiary_Name")
        /\ FirstMetFirst(views.inflows, inflow_groups(df), df.rows, "Inflow_Source")

\* C3 as amended: each leaderboard has at most 10 entries, in descending
\* order of total; its entries are groups of the grouping, as many as there
\* are up to 10, and no group left out has a larger total than an entry.
TopOf(board, groups) ==
    /\ Len(board) = (IF Len(groups) < top_n THEN Len(groups) ELSE top_n)
    /\ Descending(board)
    /\ \A a, b \in 1..Len(board) : a # b => board[a].key # board[b].key
    /\ \A a \in 1..Len(board) : \E g \in 1..Len(groups) : groups[g] = board[a]
    /\ \A a \in 1..Len(board), g \in 1..Len(groups) :
          (\A b \in 1..Len(board) : board[b] # groups[g]) => groups[g].sum <= board[a].sum

C3_TopTen ==
    {"outflows", "inflows"} \subseteq computed =>
        /\ Len(views.outflows) <= top_n
        /\ Len(views.inflows) <= top_n
        /\ TopOf(views.outflows, OutflowGroups)
        /\ TopOf(views.inflows, inflow_groups(df))

C3_Witness ==
    /\ {"outflows", "inflows"} \subseteq computed
    /\ Len(OutflowGroups) > top_n
    /\ Len(views.outflows) = top_n
    /\ \E g \in 1..Len(OutflowGroups) :
          /\ OutflowGroups[g].sum = views.outflows[top_n].sum
          /\ OutflowGroups[g].key # views.outflows[top_n].key
          /\ FirstRow(df.rows, "Beneficiary_Name", OutflowGroups[g].key)
                < FirstRow(df.rows, "Beneficiary_Name", views.outflows[top_n].key)

\* C4: in the inflow grouping every row with credit_amount > 0 has a
\* non-empty key, its beneficiary_name or else its description, and counts
\* once, with its credit_amount, in exactly one group.
C4_EveryCreditRowGrouped ==
    "inflows" \in computed =>
        LET credits == positive(df.rows, "Credit_Amount")
            groups == inflow_groups(df)
        IN /\ \A i \in 1..Len(credits) :
                 /\ credits[i].Inflow_Source # NaN
                 /\ credits[i].Inflow_Source =
                        (IF credits[i].Beneficiary_Name # NaN
                         THEN credits[i].Beneficiary_Name ELSE credits[i].Description)
                 /\ Cardinality({g \in 1..Len(groups) :
                                    groups[g].key = credits[i].Inflow_Source}) = 1
           /\ SumCol(groups, "count") = Len(credits)
           /\ SumCol(groups, "sum") = SumCol(credits, "Credit_Amount")

\* C5: a file that lacks one of the seven required columns, or has a row
\* whose date does not parse, loads to an error and no frame, and no view is
\* computed and no generation request is made for it.
FatalLoadError(file) ==
    \/ ~(Required \subseteq file.columns)
    \/ \E i \in 1..Len(file.rows) : ~DateParses(file.rows[i].Transaction_Date)

C5_FatalLoadAborts ==
    (pc \notin {"start", "uploader"} /\ uploaded_file # <<>>
        /\ FatalLoadError(uploaded_file[1])) =>
            /\ df.isNone
            /\ computed = {}
            /\ CopiesIn(uploaded_file[1], requests) = 0

\* C6: when the generation service fails for a loaded file, the failure
\* becomes a message and the script run still computes all five views.
C6_ViewsAfterFailure ==
    (Loaded /\ insights = "diagnostic" /\ Ended) => computed = AllViews

\* C7 as stated: in a script run that is not the first one since the file
\* was uploaded, the file is not parsed and the service is not requested.
C7_NoSecondRequest ==
    [][(same_file_runs' >= 2 /\ uploaded_file' # <<>>) =>
          (parses' = parses /\ requests' = requests)]_vars

\* C7 as amended: a file is parsed at most once, in the first script run
\* with it; the service is requested once in every script run in which the
\* load gave a frame, reruns of the same file included.
C7_ParsedOnceRequestedPerRun ==
    \A f \in BagToSet(loaded_runs) \cup BagToSet(parses) \cup BagToSet(requests) :
        /\ CopiesIn(f, parses) = 1
        /\ f \in DOMAIN cache
        /\ Ended => CopiesIn(f, requests) = CopiesIn(f, loaded_runs)

C7_Witness ==
    /\ Ended
    /\ same_file_runs = 2
    /\ uploaded_file # <<>>
    /\ CopiesIn(uploaded_file[1], parses) = 1
    /\ CopiesIn(uploaded_file[1], requests) = 2

\* C8 as stated: after a successful load every row has debit_amount >= 0
\* and credit_amount >= 0.
C8_NonNegative ==
    Loaded =>
        \A i \in 1..Len(df.rows) :
            df.rows[i].Debit_Amount >= 0 /\ df.rows[i].Credit_Amount >= 0

\* C8 as amended: after a successful load every amount is the source
\* value when that is a number, negative ones included, and 0 when it is not
\* a number or is missing; no amount value makes the load fail.
ZeroAmounts(file) ==
    File(file.columns,
         [i \in 1..Len(file.rows) |->
             [c \in DOMAIN file.rows[i] |->
                 IF c \in {"Debit_Amount", "Credit_Amount"} THEN Num(0)
                 ELSE file.rows[i][c]]])

SourceAmount(cell) == IF cell[1] = "num" THEN cell[2] ELSE 0

C8_AmountsCoerced ==
    (pc \notin {"start", "uploader"} /\ uploaded_file # <<>>) =>
        LET file == uploaded_file[1] IN
        /\ ~df.isNone =>
              \A i \in 1..Len(df.rows) :
                  /\ df.rows[i].Debit_Amount = SourceAmount(file.rows[i].Debit_Amount)
                  /\ df.rows[i].Credit_Amount = SourceAmount(file.rows[i].Credit_Amount)
        /\ df.isNone => load_and_preprocess_data(ZeroAmounts(file)).isNone

C8_Witness ==
    /\ Loaded
    /\ \E i \in 1..Len(df.rows) :
          /\ uploaded_file[1].rows[i].Credit_Amount = Text
          /\ df.rows[i].Credit_Amount = 0
          /\ df.rows[i].Debit_Amount < 0

\* C9 as stated: after the load, the frame of the script run stays what
\* the load returned: same rows, same order, same fields, same values.
C9_FrameUntouched ==
    Loaded => df = cache[uploaded_file[1]]

\* C9 as amended: the rows, their order and the values of the fields the
\* load produced never change, and the cached result never changes; the only
\* change is the Inflow_Source column the inflow leaderboard adds to the
\* frame of the script run.
C9_OnlyInflowSourceAdded ==
    Loaded =>
        LET snap == cache[uploaded_file[1]] IN
        /\ snap = load_and_preprocess_data(uploaded_file[1])
        /\ Len(df.rows) = Len(snap.rows)
        /\ snap.columns \subseteq df.columns
        /\ df.columns \subseteq snap.columns \cup {"Inflow_Source"}
        /\ "Inflow_Source" \in df.columns <=> "inflows" \in computed
        /\ \A i \in 1..Len(df.rows) : \A c \in snap.columns :
              df.rows[i][c] = snap.rows[i][c]

C9_Witness ==
    /\ Loaded
    /\ pc = "done"
    /\ insights # ""
    /\ computed = AllViews
    /\ "Inflow_Source" \in df.columns
    /\ \E i \in 1..Len(df.rows) :
          df.rows[i].Beneficiary_Name = NaN /\ df.rows[i].Inflow_Source # NaN

\* C10: after the load, transaction_type is Credit exactly for the rows
\* whose description holds Freelance, Dividend, Refund or Interest in any
\* letter case; every other row keeps its transaction_type, every row keeps
\* its amounts and other fields, and reclassifying the result again changes
\* nothing.
SameLetter(a, b) ==
    \/ a = b
    \/ a \in 65..90 /\ b = a + 32
    \/ a \in 97..122 /\ b = a - 32

HoldsKeyword(desc) ==
    \E p \in Pattern : \E off \in 0..(Len(desc) - Len(p)) :
        \A j \in 1..Len(p) : SameLetter(desc[off + j], p[j])

C10_ReclassifyOnlyType ==
    Loaded =>
        LET file == uploaded_file[1]
            before == Normalize(file)
        IN /\ \A i \in 1..Len(df.rows) :
                 /\ df.rows[i].Transaction_Type =
                        (IF HoldsKeyword(file.rows[i].Description) THEN Credit
                         ELSE IF "Transaction_Type" \in file.columns
                              THEN file.rows[i].Transaction_Type ELSE NaN)
                 /\ \A c \in before.columns \ {"Transaction_Type"} :
                        df.rows[i][c] = before.rows[i][c]
           /\ Len(df.rows) = Len(file.rows)
           /\ Reclassify(df) = df

C10_Witness ==
    /\ Loaded
    /\ uploaded_file[1].columns = Required
    /\ \E i, j \in 1..Len(df.rows) :
          /\ uploaded_file[1].rows[i].Description = refund
          /\ uploaded_file[1].rows[i].Transaction_Type = Debit
          /\ df.rows[i].Transaction_Type = Credit
          /\ df.rows[i].Debit_Amount = 0 /\ df.rows[i].Credit_Amount > 0
          /\ uploaded_file[1].rows[j].Description = Rent
          /\ df.rows[j].Transaction_Type = Debit

====
